---- MODULE Spec2Model ----
(***************************************************************************)
(* The Prospector: the multi-source aggregate scraper                      *)
(* (scraper_service/*.py) and the FastAPI backend (backend/main.py), as    *)
(* state machines.                                                         *)
(*                                                                         *)
(* Text that the code slices, concatenates, lower-cases or searches is a   *)
(* sequence of one-character strings; a link is a pair <<prefix, rest>>    *)
(* standing for the concatenation the f-string builds.  A call that raises *)
(* is a record with ok = FALSE.                                            *)
(***************************************************************************)
EXTENDS Integers, Sequences, FiniteSets, TLC

VARIABLES
    enabled,         \* aggregate_scraper: which scrape_* names are not None after import
    world,           \* what the external services answer (environment)
    results,         \* aggregate_scraper.results, the module-level list
    query,           \* argument of the last aggregate_scrape call
    ret,             \* outcome of the last aggregate_scrape call
    prev,            \* history: query and outcome of the call before the last one
    out,             \* outcome of the last direct call of one scraper
    http,            \* response of the last /search request
    claims_storage,  \* backend/main.py claims_storage
    task,            \* per connection: the request in flight, its handler's position and response
    running,         \* the connection whose handler holds the event loop, 0 when none
    history          \* history: the completed claim operations, in completion order

vars == <<enabled, world, results, query, ret, prev, out, http,
          claims_storage, task, running, history>>

-----------------------------------------------------------------------------
(* Bounds of the model *)

MaxTweets == 2

MaxTextLen == 300

-----------------------------------------------------------------------------
(* Python primitives *)

Min(a, b) == IF a < b THEN a ELSE b

\* s[:n] for n >= 0
Prefix(s, n) == SubSeq(s, 1, Min(Len(s), n))

\* sub in s, for str
Contains(s, sub) ==
    \E i \in 1..(Len(s) - Len(sub) + 1) : SubSeq(s, i, i + Len(sub) - 1) = sub

UpperLetters ==
    <<"A","B","C","D","E","F","G","H","I","J","K","L","M",
      "N","O","P","Q","R","S","T","U","V","W","X","Y","Z">>

LowerLetters ==
    <<"a","b","c","d","e","f","g","h","i","j","k","l","m",
      "n","o","p","q","r","s","t","u","v","w","x","y","z">>

\* str.lower() on one ASCII character
lower_char(c) ==
    IF \E i \in 1..26 : UpperLetters[i] = c
    THEN LowerLetters[CHOOSE i \in 1..26 : UpperLetters[i] = c]
    ELSE c

\* str.lower()
lower(s) == [i \in 1..Len(s) |-> lower_char(s[i])]

DigitChars == <<"0","1","2","3","4","5","6","7","8","9">>

\* str(n) for an int n >= 0, as the f-string formats tweet.id
RECURSIVE int_str(_)
int_str(n) ==
    IF n < 10 THEN <<DigitChars[n + 1]>>
    ELSE int_str(n \div 10) \o <<DigitChars[(n % 10) + 1]>>

\* the sequences over S of length at most n
RECURSIVE SeqUpTo(_, _)
SeqUpTo(S, n) ==
    IF n = 0 THEN {<<>>}
    ELSE LET shorter == SeqUpTo(S, n - 1)
         IN  shorter \cup {Append(s, x) : s \in {t \in shorter : Len(t) = n - 1}, x \in S}

Raised == [ok |-> FALSE, items |-> <<>>]

Returned(items) == [ok |-> TRUE, items |-> items]

-----------------------------------------------------------------------------
(* scraper_service/reddit_scraper.py *)

Sorts == <<"relevance", "new", "hot", "top">>

RedditLimit == 30

RedditDescLen == 200

\* the result with the whole post body as description
reddit_result_untruncated(submission) ==
    [title       |-> submission.title,
     description |-> IF submission.selftext # <<>>
                     THEN submission.selftext
                     ELSE submission.title,
     link        |-> <<"https://reddit.com", submission.permalink>>,
     source      |-> "Reddit"]

reddit_result(submission) ==
    [title       |-> submission.title,
     description |-> IF submission.selftext # <<>>
                     THEN Prefix(submission.selftext, RedditDescLen)
                     ELSE submission.title,
     link        |-> <<"https://reddit.com", submission.permalink>>,
     source      |-> "Reddit"]

\* the inner loop: one result per submission that is not stickied
RECURSIVE reddit_listing(_)
reddit_listing(subs) ==
    IF subs = <<>> THEN <<>>
    ELSE (IF Head(subs).stickied THEN <<>> ELSE <<reddit_result(Head(subs))>>)
         \o reddit_listing(Tail(subs))

\* the outer loop over the sort options i..4
RECURSIVE reddit_collect(_, _)
reddit_collect(listings, i) ==
    IF i > Len(Sorts) THEN <<>>
    ELSE reddit_listing(listings[Sorts[i]]) \o reddit_collect(listings, i + 1)

\* "Deduplicate by title": the first result of each title is kept
RECURSIVE dedup_by_title(_, _)
dedup_by_title(rs, seen) ==
    IF rs = <<>> THEN <<>>
    ELSE IF Head(rs).title \in seen
         THEN dedup_by_title(Tail(rs), seen)
         ELSE <<Head(rs)>> \o dedup_by_title(Tail(rs), seen \cup {Head(rs).title})

\* api: what praw answers; api.ok = FALSE when a search raises
scrape_reddit(q, api) ==
    IF ~api.ok THEN Raised
    ELSE Returned(Prefix(dedup_by_title(reddit_collect(api.data, 1), {}), RedditLimit))

-----------------------------------------------------------------------------
(* scraper_service/twitter_scraper.py *)

TweetTitleLen == 80

tweet_result(tweet) ==
    [title       |-> Prefix(tweet.text, TweetTitleLen),
     description |-> tweet.text,
     link        |-> <<"https://twitter.com/i/web/status/", int_str(tweet.id)>>,
     source      |-> "Twitter/X"]

\* api.data is tweets.data, with None already read as [] ("tweets.data or []")
scrape_twitter(q, api) ==
    IF ~api.ok THEN Raised
    ELSE Returned([i \in 1..Len(api.data) |-> tweet_result(api.data[i])])

-----------------------------------------------------------------------------
(* scraper_service/github_scraper.py *)

\* an optional value: <<>> is None, <<v>> is v

\* repo['description'] or ''
or_empty(opt) == IF opt = <<>> THEN <<>> ELSE opt[1]

repo_result(repo) ==
    [title       |-> repo.name,
     description |-> or_empty(repo.description),
     link        |-> repo.html_url,
     source      |-> "GitHub"]

\* api.data is resp.json().get('items', [])
scrape_github(q, api) ==
    IF ~api.ok THEN Raised
    ELSE Returned([i \in 1..Len(api.data) |-> repo_result(api.data[i])])

-----------------------------------------------------------------------------
(* scraper_service/etsy_scraper.py *)

UniqueItemFor == <<"U","n","i","q","u","e"," ","i","t","e","m"," ","f","o","r"," ">>

HandmadeTreasure ==
    <<"H","a","n","d","m","a","d","e"," ","t","r","e","a","s","u","r","e"," ",
      "f","r","o","m"," ","E","t","s","y",".">>

\* no request is made: the dummy result is built from the query alone
scrape_etsy(q) ==
    Returned(<<[title       |-> UniqueItemFor \o q,
                description |-> HandmadeTreasure,
                link        |-> <<"https://www.etsy.com/search?q=", q>>,
                source      |-> "Etsy"]>>)

-----------------------------------------------------------------------------
(* scraper_service/youtube_scraper.py *)

video_result(item) ==
    [title       |-> item.title,
     description |-> item.description,
     link        |-> <<"https://youtube.com/watch?v=", item.videoId[1]>>,
     source      |-> "YouTube"]

\* item["id"]["videoId"] raises KeyError for an item that is no video
scrape_youtube(q, api) ==
    IF ~api.ok THEN Raised
    ELSE IF \E i \in 1..Len(api.data) : api.data[i].videoId = <<>> THEN Raised
    ELSE Returned([i \in 1..Len(api.data) |-> video_result(api.data[i])])

-----------------------------------------------------------------------------
(* scraper_service/aggregate_scraper.py *)

\* the scrapers in the order aggregate_scrape tries them
Scrapers == <<"reddit", "twitter", "github", "etsy", "youtube">>

ScraperNames == {Scrapers[i] : i \in 1..Len(Scrapers)}

\* the "source" each scraper writes into its results
SourceOf(name) ==
    CASE name = "reddit"  -> "Reddit"
      [] name = "twitter" -> "Twitter/X"
      [] name = "github"  -> "GitHub"
      [] name = "etsy"    -> "Etsy"
      [] name = "youtube" -> "YouTube"

\* scrape_x(query), against the services as they answer now
call_scraper(name, q) ==
    CASE name = "reddit"  -> scrape_reddit(q, world.reddit)
      [] name = "twitter" -> scrape_twitter(q, world.twitter)
      [] name = "github"  -> scrape_github(q, world.github)
      [] name = "etsy"    -> scrape_etsy(q)
      [] name = "youtube" -> scrape_youtube(q, world.youtube)

NoCalls == [n \in ScraperNames |-> 0]

\* a block without its try/except: the scraper's exception leaves aggregate_scrape
try_scraper_uncaught(acc, name, q) ==
    IF acc.raised \/ name \notin enabled THEN acc
    ELSE LET r == call_scraper(name, q)
         IN  [results |-> IF r.ok THEN acc.results \o r.items ELSE acc.results,
              calls   |-> [acc.calls EXCEPT ![name] = @ + 1],
              raised  |-> ~r.ok]

Reverse(s) == [i \in 1..Len(s) |-> s[Len(s) + 1 - i]]

\* a block that inserts each result at the front: "for r in ...: results.insert(0, r)"
try_scraper_insert_front(acc, name, q) ==
    IF acc.raised \/ name \notin enabled THEN acc
    ELSE LET r == call_scraper(name, q)
         IN  [results |-> IF r.ok THEN Reverse(r.items) \o acc.results ELSE acc.results,
              calls   |-> [acc.calls EXCEPT ![name] = @ + 1],
              raised  |-> FALSE]

\* one block of aggregate_scrape:
\*     if scrape_x:
\*         try: results += scrape_x(query)
\*         except Exception as e: print(...)
\* acc.raised says an exception is propagating out of aggregate_scrape
try_scraper(acc, name, q) ==
    IF acc.raised \/ name \notin enabled THEN acc
    ELSE LET r == call_scraper(name, q)
         IN  [results |-> IF r.ok THEN acc.results \o r.items ELSE acc.results,
              calls   |-> [acc.calls EXCEPT ![name] = @ + 1],
              raised  |-> FALSE]

\* the five blocks, in order
RECURSIVE run_scrapers(_, _, _)
run_scrapers(acc, i, q) ==
    IF i > Len(Scrapers) THEN acc
    ELSE run_scrapers(try_scraper(acc, Scrapers[i], q), i + 1, q)

Outcome(r) ==
    [called |-> TRUE,
     raised |-> r.raised,
     value  |-> IF r.raised THEN <<>> ELSE r.results,
     calls  |-> r.calls]

\* aggregate_scrape with "global results" in place of the local "results = []"
aggregate_scrape_global(q) ==
    LET r == run_scrapers([results |-> results, calls |-> NoCalls, raised |-> FALSE], 1, q)
    IN  /\ query' = q
        /\ ret' = Outcome(r)
        /\ prev' = [called |-> ret.called, query |-> query, value |-> ret.value]
        /\ results' = r.results
        /\ UNCHANGED <<enabled, world, out, http,
                       claims_storage, task, running, history>>

\* aggregate_scrape(query): the local "results = []" shadows the module-level list
aggregate_scrape(q) ==
    LET r == run_scrapers([results |-> <<>>, calls |-> NoCalls, raised |-> FALSE], 1, q)
    IN  /\ query' = q
        /\ ret' = Outcome(r)
        /\ prev' = [called |-> ret.called, query |-> query, value |-> ret.value]
        /\ UNCHANGED <<enabled, world, results, out, http,
                       claims_storage, task, running, history>>

-----------------------------------------------------------------------------
(* The environment of the aggregate scraper *)

Queries == {<<>>, <<"A">>}

SortSet == {Sorts[i] : i \in 1..Len(Sorts)}

postA == [title |-> <<"A">>, selftext |-> <<"s">>,
          permalink |-> <<"/","r","/","a">>, stickied |-> FALSE]

postB == [title |-> <<"B">>, selftext |-> <<>>,
          permalink |-> <<"/","r","/","b">>, stickied |-> FALSE]

RedditListings == {<<>>, <<postA>>, <<postB>>}

Failing(data) == [ok |-> FALSE, data |-> data]

Answering(data) == [ok |-> TRUE, data |-> data]

RedditWorlds ==
    {Failing([s \in SortSet |-> <<>>])}
        \cup {Answering(f) : f \in [SortSet -> RedditListings]}

tweetA == [text |-> <<"A">>, id |-> 12]

TwitterWorlds ==
    {Failing(<<>>)} \cup {Answering(d) : d \in SeqUpTo({tweetA}, MaxTweets)}

repoA == [name |-> <<"A">>, description |-> <<>>,
          html_url |-> <<"https://github.com/", <<"o","/","A">>>>]

GithubWorlds == {Failing(<<>>), Answering(<<repoA>>)}

videoB == [title |-> <<"B">>, description |-> <<"d">>, videoId |-> << <<"v","1">> >>]

channelC == [title |-> <<"C">>, description |-> <<>>, videoId |-> <<>>]

YoutubeWorlds == {Failing(<<>>), Answering(<<videoB>>), Answering(<<channelC>>)}

Worlds ==
    [reddit : RedditWorlds, twitter : TwitterWorlds,
     github : GithubWorlds, youtube : YoutubeWorlds]

NoWorld ==
    [reddit  |-> Failing([s \in SortSet |-> <<>>]), twitter |-> Failing(<<>>),
     github  |-> Failing(<<>>),                      youtube |-> Failing(<<>>)]

NotCalled == [called |-> FALSE, raised |-> FALSE, value |-> <<>>, calls |-> NoCalls]

NoOut == [scraper |-> "none", ok |-> TRUE, items |-> <<>>]

NoResponse == [status |-> 0, body |-> <<>>]

NoHttp == [query |-> <<>>, gamers |-> NoResponse, hobbyists |-> NoResponse]

\* the parts of the state a specification does not use
IdleAggregate ==
    /\ enabled = {}
    /\ results = <<>>
    /\ query = <<>>
    /\ ret = NotCalled
    /\ prev = [called |-> FALSE, query |-> <<>>, value |-> <<>>]

IdleWorld == world = NoWorld

IdleScrape == out = NoOut

IdleSearch == http = NoHttp

IdleClaims ==
    /\ claims_storage = <<>>
    /\ task = <<>>
    /\ running = 0
    /\ history = <<>>

\* after import of aggregate_scraper: each scrape_x is the function, or None
InitAggregate ==
    /\ enabled \in SUBSET ScraperNames
    /\ world \in Worlds
    /\ results = <<>>
    /\ query = <<>>
    /\ ret = NotCalled
    /\ prev = [called |-> FALSE, query |-> <<>>, value |-> <<>>]
    /\ IdleScrape /\ IdleSearch /\ IdleClaims

NextAggregate == \E q \in Queries : aggregate_scrape(q)

SpecAggregate == InitAggregate /\ [][NextAggregate]_vars

-----------------------------------------------------------------------------
(* Properties of aggregate_scrape *)

Range(s) == {s[i] : i \in 1..Len(s)}

Count(x, s) == Cardinality({i \in 1..Len(s) : s[i] = x})

\* the results in s that carry the source of scraper name
FromScraper(s, name) == SelectSeq(s, LAMBDA r : r.source = SourceOf(name))

\* what scraper name answers to the last query
Answer(name) == call_scraper(name, query)

\* scraper name was tried in the last call and raised / returned
Fails(name) == name \in enabled /\ ~Answer(name).ok

Succeeds(name) == name \in enabled /\ Answer(name).ok

Position(name) == CHOOSE i \in 1..Len(Scrapers) : Scrapers[i] = name

\* a is s with some elements left out, order kept
RECURSIVE IsSubSeq(_, _)
IsSubSeq(a, s) ==
    IF a = <<>> THEN TRUE
    ELSE IF s = <<>> THEN FALSE
    ELSE IF Head(a) = Head(s) THEN IsSubSeq(Tail(a), Tail(s))
    ELSE IsSubSeq(a, Tail(s))

RECURSIVE SumLen(_)
SumLen(names) ==
    IF names = {} THEN 0
    ELSE LET n == CHOOSE m \in names : TRUE
         IN  (IF Succeeds(n) THEN Len(Answer(n).items) ELSE 0) + SumLen(names \ {n})

\* C1: aggregate_scrape of a non-empty query returns no two results with the
\* same title (and so keeps one result per title).
C1_TitlesUnique ==
    (ret.called /\ query # <<>>) =>
        \A i, j \in 1..Len(ret.value) :
            i # j => ret.value[i].title # ret.value[j].title

\* C2: whichever enabled scrapers raise, aggregate_scrape does not raise, every
\* enabled scraper is called exactly once (a disabled one never), every result
\* of a scraper that returned is in the returned list as often as the scraper
\* returned it, and no result comes from a scraper that raised.
C2_FailureIsolated ==
    ret.called =>
        /\ ~ret.raised
        /\ \A n \in ScraperNames :
            /\ ret.calls[n] = (IF n \in enabled THEN 1 ELSE 0)
            /\ LET mine == FromScraper(ret.value, n)
               IN  IF Succeeds(n)
                   THEN /\ Len(mine) = Len(Answer(n).items)
                        /\ \A x \in Range(Answer(n).items) :
                               Count(x, mine) = Count(x, Answer(n).items)
                   ELSE mine = <<>>

\* a scraper raised and a scraper tried after it contributed its results
C2_Witness ==
    /\ ret.called
    /\ \E f, g \in ScraperNames :
        /\ Position(f) < Position(g)
        /\ Fails(f)
        /\ Succeeds(g)
        /\ Answer(g).items # <<>>
        /\ FromScraper(ret.value, g) # <<>>

\* C4: aggregate_scrape rejects the empty query: it raises and calls no scraper.
C4_EmptyQueryRejected ==
    (ret.called /\ query = <<>>) =>
        /\ ret.raised
        /\ \A n \in ScraperNames : ret.calls[n] = 0

\* C9: aggregate_scrape keeps nothing between calls: the module-level results
\* list stays empty, a call returns exactly as many results as its own scrapers
\* returned, and a call with the query of the call before it, against services
\* that answer the same, returns the same list.
C9_Stateless ==
    /\ results = <<>>
    /\ ret.called => Len(ret.value) = SumLen(ScraperNames)
    /\ (ret.called /\ prev.called /\ prev.query = query) => ret.value = prev.value

\* the same query was aggregated twice in a row, with results
C9_Witness ==
    /\ ret.called /\ prev.called /\ prev.query = query
    /\ ret.value # <<>>

\* C10: the results of one scraper appear in the returned list in the order the
\* scraper returned them, whatever the other scrapers do.
C10_OrderWithinScraper ==
    ret.called =>
        \A n \in ScraperNames :
            Succeeds(n) => IsSubSeq(FromScraper(ret.value, n), Answer(n).items)

\* a scraper returned two different results, both in the returned list, while
\* another scraper raised
C10_Witness ==
    /\ ret.called
    /\ \E n \in ScraperNames :
        /\ Succeeds(n)
        /\ Len(Answer(n).items) >= 2
        /\ Answer(n).items[1] # Answer(n).items[2]
        /\ Len(FromScraper(ret.value, n)) >= 2
    /\ \E f \in ScraperNames : Fails(f)

-----------------------------------------------------------------------------
(* The scrapers of free-form text, called on their own *)

\* the text lengths around the two slice lengths, up to MaxTextLen
TextLens ==
    {0, 1, TweetTitleLen, TweetTitleLen + 1, RedditDescLen, RedditDescLen + 1, MaxTextLen}

\* a text of n characters, no two neighbours alike
LongText(n) == [i \in 1..n |-> DigitChars[(i % 10) + 1]]

LongPosts ==
    {[title |-> LongText(t), selftext |-> LongText(b),
      permalink |-> <<"/","r","/","p">>, stickied |-> st] :
        t \in TextLens \ {0}, b \in TextLens, st \in BOOLEAN}

LongTweets == {[text |-> LongText(n), id |-> 12] : n \in TextLens \ {0}}

\* one post, found under the first sort option, and one tweet
InitScrape ==
    /\ \E p \in LongPosts, t \in LongTweets :
        world = [NoWorld EXCEPT
                    !.reddit  = Answering([s \in SortSet |->
                                    IF s = Sorts[1] THEN <<p>> ELSE <<>>]),
                    !.twitter = Answering(<<t>>)]
    /\ out = NoOut
    /\ IdleAggregate /\ IdleSearch /\ IdleClaims

FreeFormScrapers == {"reddit", "twitter"}

\* scrape_reddit(query) or scrape_twitter(query), called directly
scrape(name) ==
    /\ out' = [scraper |-> name,
               ok      |-> call_scraper(name, <<"q">>).ok,
               items   |-> call_scraper(name, <<"q">>).items]
    /\ UNCHANGED <<enabled, world, results, query, ret, prev, http,
                   claims_storage, task, running, history>>

NextScrape == \E name \in FreeFormScrapers : scrape(name)

SpecScrape == InitScrape /\ [][NextScrape]_vars

\* the submissions a Reddit result can come from
Submissions ==
    UNION {Range(world.reddit.data[s]) : s \in SortSet}

\* C8 as stated: every result of a free-form text scraper has a description of
\* at most 200 characters.
C8_DescriptionAtMost200 ==
    out.scraper \in FreeFormScrapers =>
        \A r \in Range(out.items) : Len(r.description) <= 200

\* C8 as the code has it: a Reddit result of a post with a body carries the
\* first 200 characters of the body, and no more; with no body it carries the
\* whole title, and a tweet's result carries the whole text (its title alone is
\* cut, to 80 characters).
C8_OnlyRedditBodyTruncated ==
    /\ out.scraper = "reddit" =>
        \A r \in Range(out.items) :
            \E p \in Submissions :
                /\ ~p.stickied
                /\ r.title = p.title
                /\ IF p.selftext # <<>>
                   THEN /\ Len(r.description) = Min(Len(p.selftext), 200)
                        /\ \A i \in 1..Len(r.description) :
                               r.description[i] = p.selftext[i]
                   ELSE r.description = p.title
    /\ out.scraper = "twitter" =>
        /\ Len(out.items) = Len(world.twitter.data)
        /\ \A i \in 1..Len(out.items) :
            /\ out.items[i].description = world.twitter.data[i].text
            /\ Len(out.items[i].title) <= 80

\* a post body of more than 200 characters was cut to 200
C8_Witness ==
    /\ out.scraper = "reddit"
    /\ \E r \in Range(out.items), p \in Submissions :
        /\ Len(p.selftext) > 200
        /\ r.title = p.title
        /\ Len(r.description) = 200

-----------------------------------------------------------------------------
(* backend/main.py: the search endpoints *)

DUMMY_GAMER_RESULTS ==
    <<[title |->
           <<"H","i","d","d","e","n"," ","I","n","d","i","e"," ","G","e","m",":"," ",
             "C","r","y","s","t","a","l"," ","C","a","v","e","s">>,
       description |->
           <<"A"," ","m","e","s","m","e","r","i","z","i","n","g"," ","p","u","z","z",
             "l","e","-","p","l","a","t","f","o","r","m","e","r"," ","w","i","t","h",
             " ","h","a","n","d","-","d","r","a","w","n"," ","a","r","t","."," ","E",
             "x","p","l","o","r","e"," ","u","n","d","e","r","g","r","o","u","n","d",
             " ","c","a","v","e","r","n","s"," ","f","i","l","l","e","d"," ","w","i",
             "t","h"," ","m","y","s","t","i","c","a","l"," ","c","r","y","s","t","a",
             "l","s",".">>,
       link |-> "https://itch.io/crystal-caves",
       source |-> "Itch.io"],
      [title |->
           <<"R","a","r","e"," ","S","t","e","a","m"," ","K","e","y",":"," ","R","e",
             "t","r","o"," ","R","a","c","i","n","g"," ","C","h","a","m","p","i","o",
             "n","s","h","i","p">>,
       description |->
           <<"L","i","m","i","t","e","d"," ","e","d","i","t","i","o","n"," ","r","a",
             "c","i","n","g"," ","g","a","m","e"," ","w","i","t","h"," ","o","n","l",
             "y"," ","1","0","0","0"," ","c","o","p","i","e","s"," ","r","e","l","e",
             "a","s","e","d","."," ","F","e","a","t","u","r","e","s"," ","c","l","a",
             "s","s","i","c"," ","8","0","s"," ","s","y","n","t","h","w","a","v","e",
             " ","s","o","u","n","d","t","r","a","c","k",".">>,
       link |-> "https://steamcommunity.com/retro-racing",
       source |-> "Steam Community"],
      [title |->
           <<"S","p","e","e","d","r","u","n"," ","C","o","m","m","u","n","i","t","y",
             ":"," ","P","i","x","e","l"," ","Q","u","e","s","t"," ","M","a","s","t",
             "e","r","s">>,
       description |->
           <<"A","c","t","i","v","e"," ","s","p","e","e","d","r","u","n","n","i","n",
             "g"," ","c","o","m","m","u","n","i","t","y"," ","f","o","r"," ","t","h",
             "e"," ","c","u","l","t"," ","c","l","a","s","s","i","c"," ","P","i","x",
             "e","l"," ","Q","u","e","s","t","."," ","W","e","e","k","l","y"," ","t",
             "o","u","r","n","a","m","e","n","t","s"," ","a","n","d"," ","s","t","r",
             "a","t","e","g","y"," ","g","u","i","d","e","s",".">>,
       link |-> "https://reddit.com/r/pixelquest",
       source |-> "Reddit"],
      [title |->
           <<"B","e","t","a"," ","A","c","c","e","s","s",":"," ","N","e","o","n"," ",
             "K","n","i","g","h","t","s"," ","V","R">>,
       description |->
           <<"E","x","c","l","u","s","i","v","e"," ","b","e","t","a"," ","t","e","s",
             "t","i","n","g"," ","o","p","p","o","r","t","u","n","i","t","y"," ","f",
             "o","r"," ","u","p","c","o","m","i","n","g"," ","c","y","b","e","r","p",
             "u","n","k"," ","V","R"," ","a","d","v","e","n","t","u","r","e","."," ",
             "A","p","p","l","y"," ","b","e","f","o","r","e"," ","s","l","o","t","s",
             " ","f","i","l","l"," ","u","p","!">>,
       link |-> "https://discord.gg/neonknights",
       source |-> "Discord"]>>

DUMMY_HOBBYIST_RESULTS ==
    <<[title |->
           <<"A","r","t","i","s","a","n"," ","L","e","a","t","h","e","r"," ","W","o",
             "r","k","i","n","g"," ","K","i","t">>,
       description |->
           <<"C","o","m","p","l","e","t","e"," ","s","t","a","r","t","e","r"," ","s",
             "e","t"," ","w","i","t","h"," ","p","r","e","m","i","u","m"," ","t","o",
             "o","l","s"," ","a","n","d"," ","e","x","o","t","i","c"," ","l","e","a",
             "t","h","e","r"," ","s","a","m","p","l","e","s","."," ","P","e","r","f",
             "e","c","t"," ","f","o","r"," ","c","r","a","f","t","i","n","g"," ","w",
             "a","l","l","e","t","s"," ","a","n","d"," ","b","e","l","t","s",".">>,
       link |-> "https://etsy.com/leather-kit",
       source |-> "Etsy"],
      [title |->
           <<"W","o","o","d","w","o","r","k","i","n","g"," ","W","o","r","k","s","h",
             "o","p",":"," ","J","a","p","a","n","e","s","e"," ","J","o","i","n","e",
             "r","y">>,
       description |->
           <<"L","e","a","r","n"," ","t","r","a","d","i","t","i","o","n","a","l"," ",
             "J","a","p","a","n","e","s","e"," ","w","o","o","d","w","o","r","k","i",
             "n","g"," ","t","e","c","h","n","i","q","u","e","s","."," ","M","a","s",
             "t","e","r"," ","c","r","a","f","t","s","m","a","n"," ","t","e","a","c",
             "h","e","s"," ","3","0","0","-","y","e","a","r","-","o","l","d"," ","m",
             "e","t","h","o","d","s",".">>,
       link |-> "https://eventbrite.com/japanese-joinery",
       source |-> "Eventbrite"],
      [title |->
           <<"R","a","r","e"," ","S","u","c","c","u","l","e","n","t"," ","S","e","e",
             "d","s"," ","C","o","l","l","e","c","t","i","o","n">>,
       description |->
           <<"E","x","o","t","i","c"," ","s","u","c","c","u","l","e","n","t"," ","v",
             "a","r","i","e","t","i","e","s"," ","f","r","o","m"," ","S","o","u","t",
             "h"," ","A","f","r","i","c","a","."," ","I","n","c","l","u","d","e","s",
             " ","g","r","o","w","i","n","g"," ","g","u","i","d","e"," ","a","n","d",
             " ","s","o","i","l"," ","m","i","x"," ","r","e","c","o","m","m","e","n",
             "d","a","t","i","o","n","s",".">>,
       link |-> "https://rareplants.shop/succulents",
       source |-> "Specialty Shop"],
      [title |->
           <<"B","l","a","c","k","s","m","i","t","h","i","n","g"," ","T","u","t","o",
             "r","i","a","l"," ","S","e","r","i","e","s">>,
       description |->
           <<"C","o","m","p","l","e","t","e"," ","v","i","d","e","o"," ","c","o","u",
             "r","s","e"," ","o","n"," ","t","r","a","d","i","t","i","o","n","a","l",
             " ","b","l","a","c","k","s","m","i","t","h","i","n","g","."," ","F","r",
             "o","m"," ","b","a","s","i","c"," ","t","o","o","l","s"," ","t","o"," ",
             "a","d","v","a","n","c","e","d"," ","d","e","c","o","r","a","t","i","v",
             "e"," ","t","e","c","h","n","i","q","u","e","s",".">>,
       link |-> "https://youtube.com/blacksmith-master",
       source |-> "YouTube"]>>

\* the comprehension with the query lower-cased and the texts left as they are
filtered_results_text_not_lowered(table, q) ==
    SelectSeq(table, LAMBDA r :
        \/ Contains(r.title, lower(q))
        \/ Contains(r.description, lower(q)))

\* the list comprehension of both endpoints
filtered_results(table, q) ==
    SelectSeq(table, LAMBDA r :
        \/ Contains(lower(r.title), lower(q))
        \/ Contains(lower(r.description), lower(q)))

\* the body of search_gamers and search_hobbyists, over the endpoint's table
search(table, q) ==
    IF q = <<>>
    THEN [status |-> 400, body |-> <<>>]
    ELSE [status |-> 200,
          body   |-> IF filtered_results(table, q) = <<>>
                     THEN table
                     ELSE filtered_results(table, q)]

\* GET /search/gamers?query=...
search_gamers ==
    /\ http' = [http EXCEPT !.gamers = search(DUMMY_GAMER_RESULTS, http.query)]
    /\ UNCHANGED <<enabled, world, results, query, ret, prev, out,
                   claims_storage, task, running, history>>

\* GET /search/hobbyists?query=...
search_hobbyists ==
    /\ http' = [http EXCEPT !.hobbyists = search(DUMMY_HOBBYIST_RESULTS, http.query)]
    /\ UNCHANGED <<enabled, world, results, query, ret, prev, out,
                   claims_storage, task, running, history>>

MaxQueryLen == 3

QueryChars == {"g", "E", "m"}

\* the query parameter of the requests
InitSearch ==
    /\ \E q \in SeqUpTo(QueryChars, MaxQueryLen) : http = [NoHttp EXCEPT !.query = q]
    /\ IdleAggregate /\ IdleWorld /\ IdleScrape /\ IdleClaims

NextSearch == search_gamers \/ search_hobbyists

SpecSearch == InitSearch /\ [][NextSearch]_vars

\* a and b are one character, or the two cases of one letter
SameLetter(a, b) ==
    \/ a = b
    \/ \E i \in 1..26 : {a, b} = {UpperLetters[i], LowerLetters[i]}

\* q occurs in s, the case of letters ignored
OccursIn(q, s) ==
    \E off \in 0..(Len(s) - Len(q)) :
        \A k \in 1..Len(q) : SameLetter(q[k], s[off + k])

Matching(table, q) ==
    SelectSeq(table, LAMBDA r : OccursIn(q, r.title) \/ OccursIn(q, r.description))

Searched(table, resp) ==
    resp.status # 0 =>
        /\ resp.status = 200
        /\ IF Matching(table, http.query) # <<>>
           THEN resp.body = Matching(table, http.query)
           ELSE resp.body = table

\* C3: for a non-empty query a search returns the candidates that hold the
\* query in title or description, case ignored, in candidate order; when there
\* is none it returns all candidates.
C3_FilterOrFallback ==
    http.query # <<>> =>
        /\ Searched(DUMMY_GAMER_RESULTS, http.gamers)
        /\ Searched(DUMMY_HOBBYIST_RESULTS, http.hobbyists)

\* one query matched some but not all gamer results, and matched no hobbyist
\* result, so that all hobbyist results came back
C3_Witness ==
    /\ http.query # <<>>
    /\ http.gamers.status = 200
    /\ Len(http.gamers.body) \in 1..(Len(DUMMY_GAMER_RESULTS) - 1)
    /\ http.hobbyists.status = 200
    /\ Matching(DUMMY_HOBBYIST_RESULTS, http.query) = <<>>
    /\ http.hobbyists.body = DUMMY_HOBBYIST_RESULTS

-----------------------------------------------------------------------------
(* backend/main.py: the claim endpoints *)
(*                                                                         *)
(* uvicorn.run(app) serves every connection on one event loop.  The three  *)
(* handlers are coroutines (async def) that never await, so a handler that *)
(* has started keeps the loop until it returns.  delete_claim is two steps *)
(* of that one handler: the list comprehension builds the new list, then   *)
(* the global is rebound to it.                                            *)

NumConnections == 2

MaxRequests == 4

Connections == 1..NumConnections

Claim(id, title) ==
    [id |-> id, title |-> title, description |-> "d", source |-> "Reddit",
     link |-> "https://reddit.com/r/a", query |-> "q", timestamp |-> "t"]

Claims == {Claim("1", "X"), Claim("1", "Y"), Claim("2", "X")}

ClaimIds == {"1", "2"}

NoClaim == Claim("", "")

Requests ==
    {[op |-> "list", claim |-> NoClaim, id |-> ""]}
        \cup {[op |-> "create", claim |-> c, id |-> ""] : c \in Claims}
        \cup {[op |-> "delete", claim |-> NoClaim, id |-> i] : i \in ClaimIds}

NoRequest == [op |-> "none", claim |-> NoClaim, id |-> ""]

\* a connection: its request, the position of its handler, the handler's new
\* list (delete_claim), its response; and for the history the collection as it
\* was when the handler started and whether a create was waiting meanwhile
IdleTask ==
    [req |-> NoRequest, pc |-> "idle", local |-> <<>>, resp |-> NoResponse,
     before |-> <<>>, overlapped |-> FALSE]

InFlight == {c \in Connections : task[c].pc \in {"pending", "filtered"}}

\* handlers run on worker threads: any handler may take a step at any time
CanRun_threads(c) == TRUE

\* the event loop runs one handler at a time, to its return
CanRun(c) == running \in {0, c}

\* a request arrives on a connection that has none in flight
request(c, r) ==
    /\ task[c].pc \in {"idle", "done"}
    /\ Len(history) + Cardinality(InFlight) < MaxRequests
    /\ task' = [task EXCEPT ![c] = [IdleTask EXCEPT !.req = r, !.pc = "pending"]]
    /\ UNCHANGED <<enabled, world, results, query, ret, prev, out, http,
                   claims_storage, running, history>>

\* a create is waiting on another connection
CreateWaiting(c) ==
    \E d \in Connections \ {c} :
        task[d].pc = "pending" /\ task[d].req.op = "create"

Done(c, r, resp, before, after, overlapped) ==
    /\ task' = [task EXCEPT ![c].pc = "done", ![c].resp = resp, ![c].local = <<>>]
    /\ history' = Append(history,
                    [op |-> r.op, claim |-> r.claim, id |-> r.id, resp |-> resp,
                     before |-> before, after |-> after, overlapped |-> overlapped])
    /\ running' = 0

\* GET /claims
get_claims(c) ==
    /\ task[c].pc = "pending" /\ task[c].req.op = "list"
    /\ CanRun(c)
    /\ Done(c, task[c].req, [status |-> 200, body |-> claims_storage],
            claims_storage, claims_storage, FALSE)
    /\ UNCHANGED <<enabled, world, results, query, ret, prev, out, http, claims_storage>>

\* create_claim that replaces a stored claim of the same id
create_claim_upsert(c) ==
    /\ task[c].pc = "pending" /\ task[c].req.op = "create"
    /\ CanRun(c)
    /\ LET claim == task[c].req.claim
           new == IF \E i \in 1..Len(claims_storage) : claims_storage[i].id = claim.id
                  THEN [i \in 1..Len(claims_storage) |->
                           IF claims_storage[i].id = claim.id THEN claim
                           ELSE claims_storage[i]]
                  ELSE Append(claims_storage, claim)
       IN  /\ claims_storage' = new
           /\ Done(c, task[c].req, [status |-> 200, body |-> claim],
                   claims_storage, new, FALSE)
    /\ UNCHANGED <<enabled, world, results, query, ret, prev, out, http>>

\* POST /claims: claim.dict() has the seven fields of the claim
create_claim(c) ==
    /\ task[c].pc = "pending" /\ task[c].req.op = "create"
    /\ CanRun(c)
    /\ LET claim == task[c].req.claim
       IN  /\ claims_storage' = Append(claims_storage, claim)
           /\ Done(c, task[c].req, [status |-> 200, body |-> claim],
                   claims_storage, Append(claims_storage, claim), FALSE)
    /\ UNCHANGED <<enabled, world, results, query, ret, prev, out, http>>

\* the comprehension that drops only the first claim of the id
without_first(storage, claim_id) ==
    IF \E i \in 1..Len(storage) : storage[i].id = claim_id
    THEN LET k == CHOOSE i \in 1..Len(storage) :
                      /\ storage[i].id = claim_id
                      /\ \A j \in 1..(i - 1) : storage[j].id # claim_id
         IN  SubSeq(storage, 1, k - 1) \o SubSeq(storage, k + 1, Len(storage))
    ELSE storage

\* [claim for claim in claims_storage if claim["id"] != claim_id]
without_id(storage, claim_id) ==
    SelectSeq(storage, LAMBDA claim : claim.id # claim_id)

\* DELETE /claims/{claim_id}, first step: the comprehension is evaluated
delete_filter(c) ==
    /\ task[c].pc = "pending" /\ task[c].req.op = "delete"
    /\ CanRun(c)
    /\ task' = [task EXCEPT ![c].pc = "filtered",
                            ![c].local = without_id(claims_storage, task[c].req.id),
                            ![c].before = claims_storage,
                            ![c].overlapped = CreateWaiting(c)]
    /\ running' = c
    /\ UNCHANGED <<enabled, world, results, query, ret, prev, out, http,
                   claims_storage, history>>

\* DELETE /claims/{claim_id}, second step: claims_storage is rebound, the message returned
delete_store(c) ==
    /\ task[c].pc = "filtered"
    /\ CanRun(c)
    /\ claims_storage' = task[c].local
    /\ Done(c, task[c].req,
            [status |-> 200, body |-> <<"Claim ", task[c].req.id, " deleted successfully">>],
            task[c].before, task[c].local, task[c].overlapped)
    /\ UNCHANGED <<enabled, world, results, query, ret, prev, out, http>>

delete_claim(c) == delete_filter(c) \/ delete_store(c)

InitClaims ==
    /\ claims_storage = <<>>
    /\ task = [c \in Connections |-> IdleTask]
    /\ running = 0
    /\ history = <<>>
    /\ IdleAggregate /\ IdleWorld /\ IdleScrape /\ IdleSearch

NextClaims ==
    \E c \in Connections :
        \/ \E r \in Requests : request(c, r)
        \/ get_claims(c)
        \/ create_claim(c)
        \/ delete_claim(c)

SpecClaims == InitClaims /\ [][NextClaims]_vars

-----------------------------------------------------------------------------
(* Properties of the claim endpoints *)

\* the claims h creates and does not delete afterwards, in the order created
Survivors(h) ==
    LET kept(i) ==
            /\ h[i].op = "create"
            /\ ~\E j \in (i + 1)..Len(h) :
                   h[j].op = "delete" /\ h[j].id = h[i].claim.id
        at == SelectSeq([i \in 1..Len(h) |-> i], kept)
    IN  [k \in 1..Len(at) |-> h[at[k]].claim]

\* s with the elements at the positions in keep, order kept
Pick(s, keep) ==
    LET at == SelectSeq([i \in 1..Len(s) |-> i], LAMBDA i : i \in keep)
    IN  [k \in 1..Len(at) |-> s[at[k]]]

\* C5: delete(id) answers with success whether or not a claim has the id;
\* afterwards no stored claim has the id and the claims of other ids are
\* stored as before, in the same order.
C5_DeleteRemovesAllOfId ==
    \A i \in 1..Len(history) :
        history[i].op = "delete" =>
            LET e == history[i]
            IN  /\ e.resp.status = 200
                /\ \A k \in 1..Len(e.after) : e.after[k].id # e.id
                /\ e.after = Pick(e.before, {k \in 1..Len(e.before) : e.before[k].id # e.id})
                /\ (i = Len(history) /\ running = 0) => claims_storage = e.after

\* a delete removed claims and left a claim of another id in place, and a
\* delete of an id nobody has succeeded
C5_Witness ==
    /\ \E i \in 1..Len(history) :
        /\ history[i].op = "delete"
        /\ history[i].after # <<>>
        /\ Len(history[i].after) < Len(history[i].before)
    /\ \E i \in 1..Len(history) :
        /\ history[i].op = "delete"
        /\ history[i].before = history[i].after
        /\ history[i].resp.status = 200

\* C6: create appends the claim as the last element and returns it unchanged,
\* whatever is stored, also a claim of the same id; list returns the claims
\* created and not deleted since, in the order they were created.
C6_CreateAppendsListInOrder ==
    \A i \in 1..Len(history) :
        LET e == history[i]
        IN  /\ e.op = "create" =>
                /\ e.resp = [status |-> 200, body |-> e.claim]
                /\ Len(e.after) = Len(e.before) + 1
                /\ e.after[Len(e.after)] = e.claim
                /\ \A k \in 1..Len(e.before) : e.after[k] = e.before[k]
            /\ e.op = "list" =>
                /\ e.resp.status = 200
                /\ e.resp.body = Survivors(SubSeq(history, 1, i - 1))

\* two claims of one id were created and a later list returned both
C6_Witness ==
    \E i \in 1..Len(history) :
        /\ history[i].op = "list"
        /\ \E a, b \in 1..Len(history[i].resp.body) :
            /\ a < b
            /\ history[i].resp.body[a].id = history[i].resp.body[b].id
            /\ history[i].resp.body[a] # history[i].resp.body[b]

\* C7: with requests in flight on several connections, the operations take
\* effect one at a time: each handler starts from the collection the handler
\* completed before it left, and the collection holds at every moment the
\* claims created and not deleted since; no create is lost, no delete undone.
C7_OperationsAtomic ==
    /\ claims_storage = Survivors(history)
    /\ \A i \in 1..Len(history) :
        history[i].before = (IF i = 1 THEN <<>> ELSE history[i - 1].after)

\* a create was waiting while a delete ran; it ran next, and its claim is stored
C7_Witness ==
    \E i \in 1..(Len(history) - 1) :
        /\ history[i].op = "delete"
        /\ history[i].overlapped
        /\ history[i + 1].op = "create"
        /\ \E k \in 1..Len(claims_storage) : claims_storage[k] = history[i + 1].claim

====
